---- MODULE Spec2Model ----
(***************************************************************************)
(* Model of the orbital physics core: the body registry (body.rs), the     *)
(* gravitational acceleration engine and the integrators (physics/),       *)
(* and the collision detector and resolver (physics/collisions.rs).        *)
(*                                                                         *)
(* f64 values are modelled as exact rationals <<n, d>> in lowest terms     *)
(* with d > 0.  Sums, products and quotients are exact, except in the      *)
(* gravity formula: the square root and the quotient by the softened       *)
(* distance are rounded toward zero to a multiple of 1/Precision.          *)
(* Comparisons of a square root against a bound are made on the squares.   *)
(* NaN and infinities do not arise: every mass and every physical radius   *)
(* of the model is > 0.                                                    *)
(* Lengths are measured in units of AU/4 and G is 1 in the model's units.  *)
(* The true anomaly of an orbit is one of five angles whose cosine and     *)
(* sine are rational, so that kepler_orbit is exact up to its square root. *)
(* Of main (main.rs) the model keeps the camera: the click handler and the *)
(* draw phase, which look the followed body up in the registry.            *)
(* The KinematicsDiagnostic a step returns is not registry state and is    *)
(* left out, as are the presentation fields of a body (draw_radius,        *)
(* color, trail_parameter).                                                *)
(***************************************************************************)
EXTENDS Integers, Sequences, FiniteSets, TLC

VARIABLES
    tier0,      \* OrbitalBodies::tier0 : identity -> Body
    tier1,      \* OrbitalBodies::tier1 : identity -> Body
    NEXT_ID,    \* the global identity counter
    ticks,      \* number of steps and passes run so far
    panicked,   \* the process has aborted on a panic
    lastOp,     \* the operation that ran last
    pre0,       \* tier0 as the last operation found it
    pre1,       \* tier1 as the last operation found it
    collisions, \* the Vec<CollisionResult> of the last collision pass
    bins,       \* the bins of the last call of bin_bodies
    binParams,  \* the BinBodiesParam of that call
    camera_position, \* main: the CameraPosition the view is centred on
    assigned,   \* the identities Body::new has handed out, in order
    lastArgs    \* the arguments of the operation that ran last

vars == <<tier0, tier1, NEXT_ID, ticks, panicked, lastOp, pre0, pre1,
          collisions, bins, binParams, camera_position, assigned, lastArgs>>

\* ---------------------------------------------------------------- bounds
MaxBodies == 3
MaxTicks == 1
MaxSetPos == 1003
Precision == 4

\* ------------------------------------------------------------- rationals
Abs(n) == IF n < 0 THEN -n ELSE n

RECURSIVE Gcd(_, _)
Gcd(a, b) == IF b = 0 THEN a ELSE Gcd(b, a % b)

Rat(n, d) ==
    LET g == Gcd(Abs(n), Abs(d))
        s == IF d < 0 THEN -1 ELSE 1
    IN  <<(s * n) \div g, (s * d) \div g>>

R(n) == <<n, 1>>
Zero == R(0)
One == R(1)
Half == Rat(1, 2)

RAdd(a, b) == Rat(a[1] * b[2] + b[1] * a[2], a[2] * b[2])
RSub(a, b) == Rat(a[1] * b[2] - b[1] * a[2], a[2] * b[2])
RMul(a, b) == Rat(a[1] * b[1], a[2] * b[2])
RDiv(a, b) == Rat(a[1] * b[2], a[2] * b[1])
RNeg(a) == <<-a[1], a[2]>>
RLt(a, b) == a[1] * b[2] < b[1] * a[2]
RLe(a, b) == a[1] * b[2] <= b[1] * a[2]
RAbs(a) == <<Abs(a[1]), a[2]>>
RMax(a, b) == IF RLe(b, a) THEN a ELSE b
RMin(a, b) == IF RLe(a, b) THEN a ELSE b
RSq(a) == RMul(a, a)

\* `x as usize`: truncation toward zero, negative values saturate to 0
AsUsize(a) == IF a[1] <= 0 THEN 0 ELSE a[1] \div a[2]

\* The integer square root of n >= 0 by bisection: lo^2 <= n < hi^2
RECURSIVE ISqrtBetween(_, _, _)
ISqrtBetween(n, lo, hi) ==
    IF hi - lo <= 1 THEN lo
    ELSE LET mid == (lo + hi) \div 2
         IN  IF mid * mid <= n THEN ISqrtBetween(n, mid, hi)
             ELSE ISqrtBetween(n, lo, mid)

ISqrt(n) == ISqrtBetween(n, 0, n + 1)

\* f64::sqrt of a >= 0, rounded down to a multiple of 1/Precision
RSqrt(a) == Rat(ISqrt((a[1] * Precision * Precision) \div a[2]), Precision)

\* A quotient rounded toward zero to a multiple of 1/Precision
RDivRounded(a, b) ==
    LET q == RDiv(a, b)
        m == (Abs(q[1]) * Precision) \div q[2]
    IN  Rat(IF q[1] < 0 THEN -m ELSE m, Precision)

Vec2(x, y) == <<R(x), R(y)>>
VAdd(u, v) == <<RAdd(u[1], v[1]), RAdd(u[2], v[2])>>
VScale(k, v) == <<RMul(k, v[1]), RMul(k, v[2])>>

\* ------------------------------------------------------------- constants
\* One astronomical unit, in the model's unit of length (AU/4)
AU == 4
MAX_DISTANCE_DEFAULT == R(AU * 10)
BIN_WIDTH_DEFAULT == Rat(AU, 2)

BinBodiesParam_default ==
    [max_distance |-> MAX_DISTANCE_DEFAULT, bin_width |-> BIN_WIDTH_DEFAULT]

\* ------------------------------------------------------------------ Body
MAXIMUM_POSITION_HISTORY == 1000

\* Mutant of fetch_add: the counter is read and not advanced
fetch_add_load_only(counter) == [value |-> counter, next |-> counter]

\* NEXT_ID.fetch_add(1, Ordering::Relaxed) : one atomic read-modify-write
\* that returns the value found and stores its successor
fetch_add(counter) == [value |-> counter, next |-> counter + 1]

\* Body::new : the identity comes from NEXT_ID.fetch_add(1)
Body_new(id, mass, pos, physical_radius, velocity, accel, fixed) ==
    [id |-> id, mass |-> mass, pos |-> pos,
     physical_radius |-> physical_radius,
     velocity |-> velocity, accel |-> accel, fixed |-> fixed,
     pos_list |-> <<>>]

\* AllocRingBuffer::enqueue : the oldest entry is dropped once the buffer
\* holds MAXIMUM_POSITION_HISTORY entries
enqueue(list, pos) ==
    IF Len(list) >= MAXIMUM_POSITION_HISTORY
    THEN Append(Tail(list), pos)
    ELSE Append(list, pos)

\* Mutant of set_pos: the position is assigned and not recorded
set_pos_unrecorded(body, pos) == [body EXCEPT !.pos = pos]

\* Body::set_pos
set_pos(body, pos) ==
    [body EXCEPT !.pos_list = enqueue(body.pos_list, pos), !.pos = pos]

\* The bodies the construction site builds: the tier map a body is put
\* in and the arguments passed to Body::new
BodyCatalogue ==
    { [tier |-> 0, mass |-> R(2), pos |-> Vec2(1, 0), physical_radius |-> R(1),
       velocity |-> Vec2(1, 0), accel |-> Vec2(0, 0), fixed |-> TRUE],
      [tier |-> 0, mass |-> R(1), pos |-> Vec2(1, 1), physical_radius |-> R(1),
       velocity |-> Vec2(3, -1), accel |-> Vec2(0, 2), fixed |-> FALSE],
      [tier |-> 1, mass |-> R(1), pos |-> Vec2(1, 0), physical_radius |-> R(1),
       velocity |-> Vec2(0, 1), accel |-> Vec2(0, 0), fixed |-> FALSE],
      [tier |-> 1, mass |-> R(2), pos |-> Vec2(0, 0), physical_radius |-> R(1),
       velocity |-> Vec2(0, 0), accel |-> Vec2(0, 0), fixed |-> FALSE],
      [tier |-> 1, mass |-> R(1), pos |-> Vec2(3, 3), physical_radius |-> R(1),
       velocity |-> Vec2(-1, 0), accel |-> Vec2(2, 0), fixed |-> FALSE],
      [tier |-> 0, mass |-> R(2), pos |-> Vec2(41, 0), physical_radius |-> R(1),
       velocity |-> Vec2(0, -1), accel |-> Vec2(0, 0), fixed |-> FALSE] }

\* ------------------------------------------------------- OrbitalBodies
Ids(t0, t1) == DOMAIN t0 \cup DOMAIN t1

\* OrbitalBodies::get_by_id (the caller has checked that the id is present)
get_by_id(t0, t1, id) == IF id \in DOMAIN t0 THEN t0[id] ELSE t1[id]

\* Mutant of iter: the chain over tier1 is left out
iter_tier0_only(t0, t1) == {t0[i] : i \in DOMAIN t0}

\* OrbitalBodies::iter, as the set of bodies it yields
iter(t0, t1) == {t0[i] : i \in DOMAIN t0} \cup {t1[i] : i \in DOMAIN t1}

\* OrbitalBodies::remove
remove(t, id) == [i \in DOMAIN t \ {id} |-> t[i]]

\* OrbitalBodies::len
len(t0, t1) == Cardinality(DOMAIN t0) + Cardinality(DOMAIN t1)

Empty == [i \in {} |-> 0]

\* ------------------------------------------------------------- physics
\* Gravity constant, in the model's units
G == R(1)

\* physics::distance : the squared distance d^2 (the first component)
distance2(body1, body2) ==
    RAdd(RSq(RSub(body1.pos[1], body2.pos[1])),
         RSq(RSub(body1.pos[2], body2.pos[2])))

\* physics::pairwise_acceleration
pairwise_acceleration(pullee, pulling) ==
    LET d2 == distance2(pullee, pulling)
        mi == pullee.mass
        mj == pulling.mass
        body_grav_constant == RMul(RNeg(G), mj)
        softening ==
            RMul(RMin(RMul(Rat(7, 10), RSqrt(RDiv(RMin(mi, mj), RMax(mi, mj)))), One),
                 RAdd(pullee.physical_radius, pulling.physical_radius))
        base == RAdd(d2, RSq(softening))
        softened_distance == RMul(base, RSqrt(base))
    IN  <<RDivRounded(RMul(body_grav_constant, RSub(pullee.pos[1], pulling.pos[1])),
                      softened_distance),
          RDivRounded(RMul(body_grav_constant, RSub(pullee.pos[2], pulling.pos[2])),
                      softened_distance)>>

RECURSIVE SumAccel(_, _, _)
SumAccel(pullee, t, S) ==
    IF S = {} THEN <<Zero, Zero>>
    ELSE LET j == CHOOSE k \in S : TRUE
         IN  VAdd(pairwise_acceleration(pullee, t[j]), SumAccel(pullee, t, S \ {j}))

\* update_acceleration, first loop: a tier-0 pullee is pulled by the other
\* tier-0 bodies
accel_tier0(t0, id) ==
    IF t0[id].fixed THEN <<Zero, Zero>>
    ELSE SumAccel(t0[id], t0, DOMAIN t0 \ {id})

\* Mutant of accel_tier1: the other tier-1 bodies pull as well
accel_tier1_pulled_by_tier1(t0, t1, id) ==
    IF t1[id].fixed THEN <<Zero, Zero>>
    ELSE VAdd(SumAccel(t1[id], t0, DOMAIN t0),
              SumAccel(t1[id], t1, DOMAIN t1 \ {id}))

\* update_acceleration, second loop: a tier-1 pullee is pulled by tier 0
accel_tier1(t0, t1, id) ==
    IF t1[id].fixed THEN <<Zero, Zero>>
    ELSE SumAccel(t1[id], t0, DOMAIN t0)

\* physics::update_acceleration : the registry with the accel fields
\* rewritten; the returned map is id |-> accel of that registry
update_acceleration(t0, t1) ==
    [tier0 |-> [i \in DOMAIN t0 |-> [t0[i] EXCEPT !.accel = accel_tier0(t0, i)]],
     tier1 |-> [i \in DOMAIN t1 |-> [t1[i] EXCEPT !.accel = accel_tier1(t0, t1, i)]]]

\* Mutant of update_tier0_pullee: the pullee is also advanced by its
\* velocity as soon as its acceleration is known
update_tier0_pullee_advancing(reg, id) ==
    [reg EXCEPT !.tier0[id] =
        set_pos([@ EXCEPT !.accel = accel_tier0(reg.tier0, id)],
                VAdd(@.pos, @.velocity))]

\* update_acceleration, first loop, one iteration: the pullee's sum is
\* taken over the registry as it stands and written into pullee.accel
update_tier0_pullee(reg, id) ==
    [reg EXCEPT !.tier0[id].accel = accel_tier0(reg.tier0, id)]

\* update_acceleration, second loop, one iteration
update_tier1_pullee(reg, id) ==
    [reg EXCEPT !.tier1[id].accel = accel_tier1(reg.tier0, reg.tier1, id)]

\* update_acceleration, the two loops run in place: ord0 is the order of
\* body_ids (tier0.keys()), ord1 the order of tier1.iter_mut()
RECURSIVE update_loop(_, _)
update_loop(reg, ord) ==
    IF ord = <<>> THEN reg
    ELSE update_loop(IF Head(ord) \in DOMAIN reg.tier0
                     THEN update_tier0_pullee(reg, Head(ord))
                     ELSE update_tier1_pullee(reg, Head(ord)),
                     Tail(ord))

update_acceleration_in_place(t0, t1, ord0, ord1) ==
    update_loop([tier0 |-> t0, tier1 |-> t1], ord0 \o ord1)

\* The true anomalies of the model, as an index into the table of their
\* (cos, sin): the four quarter turns and the angle of the 3-4-5 triangle
Angles ==
    << [cos |-> One, sin |-> Zero], [cos |-> Zero, sin |-> One],
       [cos |-> R(-1), sin |-> Zero], [cos |-> Zero, sin |-> R(-1)],
       [cos |-> Rat(3, 5), sin |-> Rat(4, 5)] >>

\* kepler_orbit : radius = p / (1 + e cos(theta)) with p = a (1 - e^2)
kepler_radius(orb) ==
    RDiv(RMul(orb.a, RSub(One, RSq(orb.e))),
         RAdd(One, RMul(orb.e, Angles[orb.theta].cos)))

\* physics::kepler_orbit : the orbiting body with its position and its
\* velocity overwritten
kepler_orbit(orb, orbiting_body, point_of_reference) ==
    LET mu == RMul(G, RAdd(orbiting_body.mass, point_of_reference.mass))
        p == RMul(orb.a, RSub(One, RSq(orb.e)))
        cos == Angles[orb.theta].cos
        sin == Angles[orb.theta].sin
        radius == kepler_radius(orb)
        rx == RMul(cos, radius)
        ry == RMul(sin, radius)
        factor == RSqrt(RDiv(mu, p))
        vx == RMul(RNeg(sin), factor)
        vy == RMul(RAdd(cos, orb.e), factor)
        total_mass == RAdd(orbiting_body.mass, point_of_reference.mass)
        m2_mt == RDiv(point_of_reference.mass, total_mass)
    IN  [set_pos(orbiting_body, <<RMul(RNeg(m2_mt), rx), RMul(RNeg(m2_mt), ry)>>)
            EXCEPT !.velocity = <<RMul(RNeg(m2_mt), vx), RMul(RNeg(m2_mt), vy)>>]

\* ----------------------------------------------------------- integrators
\* Euler::step, the body of the loop over iter_mut()
Euler_body(body, dt) ==
    LET v == VAdd(body.velocity, VScale(dt, body.accel))
    IN  set_pos([body EXCEPT !.velocity = v], VAdd(body.pos, VScale(dt, v)))

\* Euler::step
Euler_step(t0, t1, dt) ==
    LET u == update_acceleration(t0, t1)
    IN  [tier0 |-> [i \in DOMAIN t0 |-> Euler_body(u.tier0[i], dt)],
         tier1 |-> [i \in DOMAIN t1 |-> Euler_body(u.tier1[i], dt)]]

\* Leapfrog::step, first loop: r += v dt + 1/2 a dt^2 with the stored accel
Leapfrog_drift(body, dt) ==
    IF body.fixed THEN body
    ELSE set_pos(body, VAdd(body.pos,
                   VAdd(VScale(dt, body.velocity),
                        VScale(RMul(Half, RSq(dt)), body.accel))))

\* Leapfrog::step, second loop: v += 1/2 (a_old + a_new) dt
Leapfrog_kick(body, a_old, dt) ==
    IF body.fixed THEN body
    ELSE [body EXCEPT !.velocity =
            VAdd(body.velocity, VScale(RMul(Half, dt), VAdd(a_old, body.accel)))]

\* Leapfrog::step
Leapfrog_step(t0, t1, dt) ==
    LET d0 == [i \in DOMAIN t0 |-> Leapfrog_drift(t0[i], dt)]
        d1 == [i \in DOMAIN t1 |-> Leapfrog_drift(t1[i], dt)]
        u == update_acceleration(d0, d1)
    IN  [tier0 |-> [i \in DOMAIN t0 |-> Leapfrog_kick(u.tier0[i], t0[i].accel, dt)],
         tier1 |-> [i \in DOMAIN t1 |-> Leapfrog_kick(u.tier1[i], t1[i].accel, dt)]]

\* LeapfrogKDK::step, first loop: the half-step velocity pushed for a body
KDK_half(body, dt) ==
    IF body.fixed THEN <<Zero, Zero>>
    ELSE VAdd(body.velocity, VScale(RMul(Half, dt), body.accel))

\* LeapfrogKDK::step, first loop: the drift r += v_half dt
KDK_drift(body, dt) ==
    IF body.fixed THEN body
    ELSE set_pos(body, VAdd(body.pos, VScale(dt, KDK_half(body, dt))))

\* LeapfrogKDK::step, second loop: v = v_half + 1/2 a_new dt, for every body
KDK_kick(body, v_half, dt) ==
    [body EXCEPT !.velocity = VAdd(v_half, VScale(RMul(Half, dt), body.accel))]

\* LeapfrogKDK::step
LeapfrogKDK_step(t0, t1, dt) ==
    LET d0 == [i \in DOMAIN t0 |-> KDK_drift(t0[i], dt)]
        d1 == [i \in DOMAIN t1 |-> KDK_drift(t1[i], dt)]
        u == update_acceleration(d0, d1)
    IN  [tier0 |-> [i \in DOMAIN t0 |-> KDK_kick(u.tier0[i], KDK_half(t0[i], dt), dt)],
         tier1 |-> [i \in DOMAIN t1 |-> KDK_kick(u.tier1[i], KDK_half(t1[i], dt), dt)]]

\* ------------------------------------------------------------ collisions
\* CollisionResult::Merge
Merge(body_id, new_mass, new_velocity) ==
    [kind |-> "Merge", body_id |-> body_id, new_mass |-> new_mass,
     new_velocity |-> new_velocity]

\* CollisionResult::Destroyed
Destroyed(body_id) == [kind |-> "Destroyed", body_id |-> body_id]

\* collisions::collides : dist <= r1 + r2, compared on the squares
collides(body1, body2) ==
    LET reach == RAdd(body1.physical_radius, body2.physical_radius)
    IN  RLe(Zero, reach) /\ RLe(distance2(body1, body2), RSq(reach))

\* Mutant of compute_merger: the momentum is divided by the winner's mass
compute_merger_winner_mass(winner, destroyed) ==
    LET new_mass == RAdd(winner.mass, destroyed.mass)
        vx == RDiv(RAdd(RMul(winner.velocity[1], winner.mass),
                        RMul(destroyed.velocity[1], destroyed.mass)), winner.mass)
        vy == RDiv(RAdd(RMul(winner.velocity[2], winner.mass),
                        RMul(destroyed.velocity[2], destroyed.mass)), winner.mass)
    IN  Merge(winner.id, new_mass, <<vx, vy>>)

\* collisions::compute_merger
compute_merger(winner, destroyed) ==
    LET new_mass == RAdd(winner.mass, destroyed.mass)
        vx == RDiv(RAdd(RMul(winner.velocity[1], winner.mass),
                        RMul(destroyed.velocity[1], destroyed.mass)), new_mass)
        vy == RDiv(RAdd(RMul(winner.velocity[2], winner.mass),
                        RMul(destroyed.velocity[2], destroyed.mass)), new_mass)
    IN  Merge(winner.id, new_mass, <<vx, vy>>)

\* collisions::append_collision : the instructions pushed for (body1, body2)
append_collision(body1, body2) ==
    IF collides(body1, body2)
    THEN LET largest == IF RLt(body2.mass, body1.mass) THEN body1 ELSE body2
             smallest == IF RLt(body2.mass, body1.mass) THEN body2 ELSE body1
         IN  <<Destroyed(smallest.id), compute_merger(largest, smallest)>>
    ELSE <<>>

\* collisions::compute_pairwise_collision_slice : the loops over i and j,
\* flattened to k = (i - 1) * n + (j - 1)
RECURSIVE pairwise_from(_, _)
pairwise_from(bodies, k) ==
    LET n == Len(bodies)
        i == (k \div n) + 1
        j == (k % n) + 1
    IN  IF k >= n * n THEN <<>>
        ELSE (IF i = j THEN <<>> ELSE append_collision(bodies[i], bodies[j]))
             \o pairwise_from(bodies, k + 1)

compute_pairwise_collision_slice(bodies) ==
    IF Len(bodies) = 0 THEN <<>> ELSE pairwise_from(bodies, 0)

\* The bodies named by the set S, in the iteration order ord (a sequence of
\* identities): the order in which a HashMap or HashSet yields them
RECURSIVE InOrder(_, _, _, _)
InOrder(t0, t1, S, ord) ==
    IF ord = <<>> THEN <<>>
    ELSE (IF Head(ord) \in S THEN <<get_by_id(t0, t1, Head(ord))>> ELSE <<>>)
         \o InOrder(t0, t1, S, Tail(ord))

Orders(S) ==
    {o \in [1..Cardinality(S) -> S] : \A a, b \in DOMAIN o : a # b => o[a] # o[b]}

\* collisions::compute_pairwise_collisions
compute_pairwise_collisions(t0, t1, ord) ==
    compute_pairwise_collision_slice(InOrder(t0, t1, Ids(t0, t1), ord))

\* bin_bodies, the closure body_in_range
body_in_range(body, max_distance) ==
    RLt(RAdd(RSq(body.pos[1]), RSq(body.pos[2])), RSq(max_distance))

RECURSIVE MaxAbsCoord(_)
MaxAbsCoord(S) ==
    LET b == CHOOSE x \in S : TRUE
        m == RMax(RAbs(b.pos[1]), RAbs(b.pos[2]))
    IN  IF S = {b} THEN m ELSE RMax(m, MaxAbsCoord(S \ {b}))

\* bin_bodies : the bounding width (the caller has checked that a body is
\* in range; on an empty selection the unwrap() panics)
bin_width_of(selected) == RMul(MaxAbsCoord(selected), R(2))

\* bin_bodies : bin_count = (width / bin_width) as usize
bin_count_of(width, bin_width) == AsUsize(RDiv(width, bin_width))

\* bin_bodies : the offset coordinates of a body
bin_offset(body, width) ==
    <<RAdd(body.pos[1], RDiv(width, R(2))), RAdd(body.pos[2], RDiv(width, R(2)))>>

\* bin_bodies : the clamped column of an offset coordinate
bin_clamp(x, bin_width, bin_count) ==
    LET c == AsUsize(RDiv(x, bin_width))
    IN  IF c < bin_count - 1 THEN c ELSE bin_count - 1

\* Mutant of bin_index: the row is left out of the index
bin_index_column_only(body, width, bin_width, bin_count) ==
    bin_clamp(bin_offset(body, width)[1], bin_width, bin_count)

\* bin_bodies : index = bx + by * bin_count
bin_index(body, width, bin_width, bin_count) ==
    LET o == bin_offset(body, width)
    IN  bin_clamp(o[1], bin_width, bin_count)
        + bin_clamp(o[2], bin_width, bin_count) * bin_count

\* collisions::bin_bodies : the bins (bins[k] is the cell of index k - 1),
\* or a panic
bin_bodies(t0, t1, params) ==
    LET selected == {b \in iter(t0, t1) : body_in_range(b, params.max_distance)}
    IN  IF selected = {} THEN [panic |-> TRUE, bins |-> <<>>]
        ELSE
        LET width == bin_width_of(selected)
            bin_count == bin_count_of(width, params.bin_width)
            positive(b) == LET o == bin_offset(b, width)
                           IN  RLe(Zero, o[1]) /\ RLe(Zero, o[2])
        IN  IF bin_count = 0 THEN [panic |-> FALSE, bins |-> <<>>]
            ELSE IF \E b \in selected : ~positive(b)
            THEN [panic |-> TRUE, bins |-> <<>>]
            ELSE [panic |-> FALSE,
                  bins |-> [k \in 1..(bin_count * bin_count) |->
                             {b.id : b \in {c \in selected :
                                bin_index(c, width, params.bin_width, bin_count) = k - 1}}]]

RECURSIVE flatten_bins(_, _, _, _, _)
flatten_bins(t0, t1, bs, ord, k) ==
    IF k > Len(bs) THEN <<>>
    ELSE compute_pairwise_collision_slice(InOrder(t0, t1, bs[k], ord))
         \o flatten_bins(t0, t1, bs, ord, k + 1)

\* compute_collisions_spatial_hash, after the call of bin_bodies: the
\* pairwise search of every bin, flattened in the order of the bins
spatial_hash_collisions(t0, t1, b, ord) ==
    [panic |-> b.panic, bins |-> b.bins,
     collisions |-> IF b.panic THEN <<>> ELSE flatten_bins(t0, t1, b.bins, ord, 1)]

\* collisions::compute_collisions_spatial_hash
compute_collisions_spatial_hash(t0, t1, ord) ==
    spatial_hash_collisions(t0, t1, bin_bodies(t0, t1, BinBodiesParam_default), ord)

\* The identities of the bins that hold two bodies or more: the only ones
\* whose iteration order shows in the instructions
Crowded(bs) == UNION {bs[k] : k \in {j \in DOMAIN bs : Cardinality(bs[j]) >= 2}}

\* Mutant of apply_collision: the merged body is inserted into tier 0
apply_collision_insert_tier0(reg, collision) ==
    IF collision.kind = "Merge"
    THEN LET upd(body) == [body EXCEPT !.mass = collision.new_mass,
                                       !.velocity = collision.new_velocity]
             id == collision.body_id
         IN  IF id \in DOMAIN reg.tier0 \cup DOMAIN reg.tier1
             THEN [reg EXCEPT !.tier0 =
                     [i \in DOMAIN reg.tier0 \cup {id} |->
                        IF i = id
                        THEN upd(IF id \in DOMAIN reg.tier0 THEN reg.tier0[id]
                                 ELSE reg.tier1[id])
                        ELSE reg.tier0[i]]]
             ELSE reg
    ELSE [tier0 |-> remove(reg.tier0, collision.body_id),
          tier1 |-> remove(reg.tier1, collision.body_id)]

\* Mutant of apply_collision: a Merge whose body is absent puts a body of
\* that identity back into tier 1
apply_collision_upsert(reg, collision) ==
    IF collision.kind = "Merge"
    THEN LET upd(body) == [body EXCEPT !.mass = collision.new_mass,
                                       !.velocity = collision.new_velocity]
             id == collision.body_id
         IN  IF id \in DOMAIN reg.tier0
             THEN [reg EXCEPT !.tier0[id] = upd(reg.tier0[id])]
             ELSE IF id \in DOMAIN reg.tier1
             THEN [reg EXCEPT !.tier1[id] = upd(reg.tier1[id])]
             ELSE [reg EXCEPT !.tier1 =
                     [i \in DOMAIN reg.tier1 \cup {id} |->
                        IF i = id
                        THEN Body_new(id, collision.new_mass, <<Zero, Zero>>, One,
                                      collision.new_velocity, <<Zero, Zero>>, FALSE)
                        ELSE reg.tier1[i]]]
    ELSE [tier0 |-> remove(reg.tier0, collision.body_id),
          tier1 |-> remove(reg.tier1, collision.body_id)]

\* handle_collisions, one arm of the match
apply_collision(reg, collision) ==
    IF collision.kind = "Merge"
    THEN LET upd(body) == [body EXCEPT !.mass = collision.new_mass,
                                       !.velocity = collision.new_velocity]
             id == collision.body_id
         IN  IF id \in DOMAIN reg.tier0
             THEN [reg EXCEPT !.tier0[id] = upd(reg.tier0[id])]
             ELSE IF id \in DOMAIN reg.tier1
             THEN [reg EXCEPT !.tier1[id] = upd(reg.tier1[id])]
             ELSE reg
    ELSE [tier0 |-> remove(reg.tier0, collision.body_id),
          tier1 |-> remove(reg.tier1, collision.body_id)]

\* handle_collisions, the loop over the instructions
RECURSIVE apply_collisions(_, _)
apply_collisions(reg, cs) ==
    IF cs = <<>> THEN reg
    ELSE apply_collisions(apply_collision(reg, Head(cs)), Tail(cs))

\* ------------------------------------------------------------ the driver
\* main: enum CameraPosition
UniverseAbsolute(pos) == [kind |-> "UniverseAbsolute", pos |-> pos, body |-> 0]
BodyRelative(body) == [kind |-> "BodyRelative", pos |-> <<Zero, Zero>>, body |-> body]

\* The arguments of an operation that takes none of those recorded
NoArgs ==
    [dt |-> Zero, orbiting |-> 0, reference |-> 0,
     orb |-> [a |-> Zero, e |-> Zero, theta |-> 1]]

\* Time steps handed to Kinematics::step
Dts == {R(-1), R(2)}

\* Parameters handed to bin_bodies by a direct caller
BinParams ==
    { BinBodiesParam_default,
      [max_distance |-> R(3), bin_width |-> Rat(1, 2)] }

Init ==
    /\ tier0 = Empty
    /\ tier1 = Empty
    /\ NEXT_ID = 0
    /\ ticks = 0
    /\ panicked = FALSE
    /\ lastOp = "init"
    /\ pre0 = Empty
    /\ pre1 = Empty
    /\ collisions = <<>>
    /\ bins = <<>>
    /\ binParams = BinBodiesParam_default
    /\ camera_position = BodyRelative(0)
    /\ assigned = <<>>
    /\ lastArgs = NoArgs

\* HashMap::insert of a body under its identity
insert(t, body) ==
    [i \in DOMAIN t \cup {body.id} |-> IF i = body.id THEN body ELSE t[i]]

\* Body::new followed by the insertion of the body into a tier map
NewBody(args) ==
    /\ ~panicked
    /\ Len(assigned) < MaxBodies
    /\ \E f \in {fetch_add(NEXT_ID)} :
         /\ LET body == Body_new(f.value, args.mass, args.pos, args.physical_radius,
                                 args.velocity, args.accel, args.fixed)
            IN  IF args.tier = 0
                THEN tier0' = insert(tier0, body) /\ tier1' = tier1
                ELSE tier1' = insert(tier1, body) /\ tier0' = tier0
         /\ NEXT_ID' = f.next
         /\ assigned' = Append(assigned, f.value)
    /\ UNCHANGED <<ticks, panicked, collisions, bins, binParams, camera_position>>

\* Body::new followed by the insertion of the body into a tier map
\* (bodies_to_map), before the simulation loop starts
AddBody(args) ==
    /\ ticks = 0
    /\ NewBody(args)
    /\ UNCHANGED <<lastOp, pre0, pre1, lastArgs>>

\* A call of Body::new once the simulation runs, by any caller
CreateLate(args) ==
    /\ ticks > 0
    /\ NewBody(args)
    /\ pre0' = tier0
    /\ pre1' = tier1
    /\ lastOp' = "Body::new"
    /\ lastArgs' = NoArgs

Stepped(op, result) ==
    /\ ~panicked
    /\ ticks < MaxTicks
    /\ \E reg \in {result} :
         /\ tier0' = reg.tier0
         /\ tier1' = reg.tier1
    /\ pre0' = tier0
    /\ pre1' = tier1
    /\ lastOp' = op
    /\ ticks' = ticks + 1
    /\ UNCHANGED <<NEXT_ID, panicked, collisions, bins, binParams,
                   camera_position, assigned>>

EulerStep ==
    \E dt \in Dts :
        /\ Stepped("Euler", Euler_step(tier0, tier1, dt))
        /\ lastArgs' = [NoArgs EXCEPT !.dt = dt]

LeapfrogStep ==
    \E dt \in Dts :
        /\ Stepped("Leapfrog", Leapfrog_step(tier0, tier1, dt))
        /\ lastArgs' = [NoArgs EXCEPT !.dt = dt]

LeapfrogKDKStep ==
    \E dt \in Dts :
        /\ Stepped("LeapfrogKDK", LeapfrogKDK_step(tier0, tier1, dt))
        /\ lastArgs' = [NoArgs EXCEPT !.dt = dt]

\* A call of physics::update_acceleration
UpdateAcceleration ==
    /\ ~panicked
    /\ ticks < MaxTicks
    /\ \E ord0 \in Orders(DOMAIN tier0) :
       \E ord1 \in Orders(DOMAIN tier1) :
         \E reg \in {update_acceleration_in_place(tier0, tier1, ord0, ord1)} :
             /\ tier0' = reg.tier0
             /\ tier1' = reg.tier1
    /\ pre0' = tier0
    /\ pre1' = tier1
    /\ lastOp' = "update_acceleration"
    /\ ticks' = ticks + 1
    /\ lastArgs' = NoArgs
    /\ UNCHANGED <<NEXT_ID, panicked, collisions, bins, binParams,
                   camera_position, assigned>>

\* The OrbitParameters handed to kepler_orbit: a > 0 and 0 <= e < 1
Orbits ==
    {[a |-> a, e |-> e, theta |-> theta] :
        a \in {R(2), R(5)}, e \in {Zero, Half}, theta \in DOMAIN Angles}

\* A call of physics::kepler_orbit on two bodies of the registry
KeplerOrbit ==
    /\ ~panicked
    /\ ticks < MaxTicks
    /\ \E orb \in Orbits :
       \E o \in Ids(tier0, tier1) :
       \E ref \in Ids(tier0, tier1) \ {o} :
         \E body \in {kepler_orbit(orb, get_by_id(tier0, tier1, o),
                                    get_by_id(tier0, tier1, ref))} :
            /\ IF o \in DOMAIN tier0
               THEN tier0' = [tier0 EXCEPT ![o] = body] /\ tier1' = tier1
               ELSE tier1' = [tier1 EXCEPT ![o] = body] /\ tier0' = tier0
            /\ lastArgs' = [NoArgs EXCEPT !.orbiting = o, !.reference = ref, !.orb = orb]
    /\ pre0' = tier0
    /\ pre1' = tier1
    /\ lastOp' = "kepler_orbit"
    /\ ticks' = ticks + 1
    /\ UNCHANGED <<NEXT_ID, panicked, collisions, bins, binParams,
                   camera_position, assigned>>

\* The position handed to the k-th call of set_pos on a body
PosOf(k) == Vec2(k % 7, -(k % 3))

\* A registry of one freshly built body, whose history is empty
InitHistory ==
    /\ \E args \in BodyCatalogue :
         /\ tier0 = IF args.tier = 0
                    THEN insert(Empty, Body_new(0, args.mass, args.pos, args.physical_radius,
                                                args.velocity, args.accel, args.fixed))
                    ELSE Empty
         /\ tier1 = IF args.tier = 1
                    THEN insert(Empty, Body_new(0, args.mass, args.pos, args.physical_radius,
                                                args.velocity, args.accel, args.fixed))
                    ELSE Empty
    /\ NEXT_ID = 1
    /\ ticks = 0
    /\ panicked = FALSE
    /\ lastOp = "init"
    /\ pre0 = Empty
    /\ pre1 = Empty
    /\ collisions = <<>>
    /\ bins = <<>>
    /\ binParams = BinBodiesParam_default
    /\ camera_position = BodyRelative(0)
    /\ assigned = <<0>>
    /\ lastArgs = NoArgs

\* A call of Body::set_pos on a body of the registry; ticks counts the calls
SetPos ==
    /\ ~panicked
    /\ ticks < MaxSetPos
    /\ \E id \in Ids(tier0, tier1) :
         IF id \in DOMAIN tier0
         THEN /\ tier0' = [tier0 EXCEPT ![id] = set_pos(@, PosOf(ticks + 1))]
              /\ tier1' = tier1
         ELSE /\ tier1' = [tier1 EXCEPT ![id] = set_pos(@, PosOf(ticks + 1))]
              /\ tier0' = tier0
    /\ lastOp' = "set_pos"
    /\ ticks' = ticks + 1
    /\ UNCHANGED <<NEXT_ID, panicked, pre0, pre1, collisions, bins, binParams,
                   camera_position, assigned, lastArgs>>

\* collisions::handle_collisions
HandleCollisions ==
    /\ ~panicked
    /\ ticks < MaxTicks
    /\ \E b \in {bin_bodies(tier0, tier1, BinBodiesParam_default)} :
       \E ord \in Orders(Crowded(b.bins)) :
         \E c \in {spatial_hash_collisions(tier0, tier1, b, ord)} :
         \E reg \in {apply_collisions([tier0 |-> tier0, tier1 |-> tier1], c.collisions)} :
             /\ panicked' = c.panic
             /\ bins' = c.bins
             /\ collisions' = c.collisions
             /\ tier0' = reg.tier0
             /\ tier1' = reg.tier1
    /\ binParams' = BinBodiesParam_default
    /\ pre0' = tier0
    /\ pre1' = tier1
    /\ lastOp' = "handle_collisions"
    /\ ticks' = ticks + 1
    /\ lastArgs' = NoArgs
    /\ UNCHANGED <<NEXT_ID, camera_position, assigned>>

\* A direct call of collisions::bin_bodies, as the unit test makes it
BinBodies ==
    /\ ~panicked
    /\ ticks < MaxTicks
    /\ \E params \in BinParams :
         \E b \in {bin_bodies(tier0, tier1, params)} :
             /\ panicked' = b.panic
             /\ bins' = b.bins
             /\ binParams' = params
    /\ pre0' = tier0
    /\ pre1' = tier1
    /\ lastOp' = "bin_bodies"
    /\ ticks' = ticks + 1
    /\ lastArgs' = NoArgs
    /\ UNCHANGED <<tier0, tier1, NEXT_ID, collisions, camera_position, assigned>>

\* main, the macro get_universe_center!: the position the view is centred
\* on, or a panic when the unwrap() meets None
get_universe_center(t0, t1, camera) ==
    IF camera.kind = "UniverseAbsolute"
    THEN [panic |-> FALSE, pos |-> camera.pos]
    ELSE IF camera.body \in Ids(t0, t1)
    THEN [panic |-> FALSE, pos |-> get_by_id(t0, t1, camera.body).pos]
    ELSE [panic |-> TRUE, pos |-> <<Zero, Zero>>]

\* Universe positions a click that hits no body centres the view on
ClickPositions == {Vec2(0, 0), Vec2(1, 1)}

\* main, the loop: a left click.  The view centres on the tier-0 body the
\* click falls in, or else on the universe position under the pointer.
\* The loop starts after the body of identity 0 (the sun) was built
MouseClick ==
    /\ ~panicked
    /\ ticks < MaxTicks
    /\ assigned # <<>>
    /\ \E c \in {get_universe_center(tier0, tier1, camera_position)} :
         /\ panicked' = c.panic
         /\ IF c.panic THEN camera_position' = camera_position
            ELSE \/ \E i \in DOMAIN tier0 : camera_position' = BodyRelative(i)
                 \/ \E pos \in ClickPositions :
                        camera_position' = UniverseAbsolute(pos)
    /\ pre0' = tier0
    /\ pre1' = tier1
    /\ lastOp' = "click"
    /\ lastArgs' = NoArgs
    /\ UNCHANGED <<tier0, tier1, NEXT_ID, ticks, collisions, bins, binParams, assigned>>

\* main, the loop: the draw phase that follows the step and the collision
\* pass of a frame
Draw ==
    /\ ~panicked
    /\ lastOp \in {"Euler", "Leapfrog", "LeapfrogKDK", "handle_collisions"}
    /\ panicked' = get_universe_center(tier0, tier1, camera_position).panic
    /\ pre0' = tier0
    /\ pre1' = tier1
    /\ lastOp' = "draw"
    /\ lastArgs' = NoArgs
    /\ UNCHANGED <<tier0, tier1, NEXT_ID, ticks, collisions, bins, binParams,
                   camera_position, assigned>>

Next ==
    \/ \E args \in BodyCatalogue : AddBody(args)
    \/ EulerStep
    \/ LeapfrogStep
    \/ LeapfrogKDKStep
    \/ HandleCollisions
    \/ BinBodies

Spec == Init /\ [][Next]_vars

\* The collision detector and resolver alone, over the registries the
\* construction site builds
NextCollisions ==
    \/ \E args \in BodyCatalogue : AddBody(args)
    \/ HandleCollisions
    \/ BinBodies

SpecCollisions == Init /\ [][NextCollisions]_vars

\* The collision pass alone, over the registries the construction site
\* builds
NextCells ==
    \/ \E args \in BodyCatalogue : AddBody(args)
    \/ HandleCollisions

SpecCells == Init /\ [][NextCells]_vars

\* The acceleration engine alone, over the registries the construction
\* site builds
NextAccel ==
    \/ \E args \in BodyCatalogue : AddBody(args)
    \/ UpdateAcceleration

SpecAccel == Init /\ [][NextAccel]_vars

\* The orbit initializer alone
NextKepler ==
    \/ \E args \in BodyCatalogue : AddBody(args)
    \/ KeplerOrbit

SpecKepler == Init /\ [][NextKepler]_vars

\* The position history of one body under repeated calls of set_pos
SpecHistory == InitHistory /\ [][SetPos]_vars

\* Bodies of the catalogue within reach of one another: a fixed and a free
\* tier-0 body and a heavier tier-1 body
TierCatalogue ==
    {args \in BodyCatalogue :
        /\ args.pos \in {Vec2(0, 0), Vec2(1, 0), Vec2(1, 1)}
        /\ args.tier = 0 \/ args.mass = R(2)}

\* The operations of a frame, in any order: the integrators, the
\* acceleration engine and the collision pass
NextTiers ==
    \/ \E args \in TierCatalogue : AddBody(args)
    \/ EulerStep
    \/ LeapfrogStep
    \/ LeapfrogKDKStep
    \/ UpdateAcceleration
    \/ HandleCollisions

SpecTiers == Init /\ [][NextTiers]_vars

\* The callers of Body::new, before and after bodies were removed
NextIdentity ==
    \/ \E args \in BodyCatalogue : AddBody(args)
    \/ HandleCollisions
    \/ \E args \in BodyCatalogue : CreateLate(args)

SpecIdentity == Init /\ [][NextIdentity]_vars

\* The frames of the main loop with the collision pass switched on, seen
\* from the camera
NextDriver ==
    \/ \E args \in BodyCatalogue : AddBody(args)
    \/ MouseClick
    \/ HandleCollisions
    \/ Draw

SpecDriver == Init /\ [][NextDriver]_vars

\* ================================================================ claims
\* The registry before and after the last operation
PreIds == Ids(pre0, pre1)
NowIds == Ids(tier0, tier1)
Pre(id) == get_by_id(pre0, pre1, id)
Now(id) == get_by_id(tier0, tier1, id)

\* The last operation was a collision pass that ran to completion
PassDone == lastOp = "handle_collisions" /\ ~panicked

\* The last operation was an integrator step
StepDone == lastOp \in {"Euler", "Leapfrog", "LeapfrogKDK"}

\* The ordered pairs the pass tested and found colliding: two distinct
\* bodies of one cell whose extents overlap
PassPairs ==
    {p \in PreIds \X PreIds :
        /\ p[1] # p[2]
        /\ \E k \in DOMAIN bins : p[1] \in bins[k] /\ p[2] \in bins[k]
        /\ collides(Pre(p[1]), Pre(p[2]))}

UnorderedPassPairs == {{p[1], p[2]} : p \in PassPairs}

CountKind(kind) == Cardinality({i \in DOMAIN collisions : collisions[i].kind = kind})

RECURSIVE SumMass(_)
SumMass(S) ==
    IF S = {} THEN Zero
    ELSE LET b == CHOOSE x \in S : TRUE
         IN  RAdd(Pre(b).mass, SumMass(S \ {b}))

\* C1: of two bodies that collide in a pass exactly one is still in the
\* registry afterwards, and it is the strictly heavier one when the masses
\* differ.
C1_OneSurvivor ==
    PassDone =>
        \A p \in PassPairs :
            /\ (p[1] \in NowIds) # (p[2] \in NowIds)
            /\ RLt(Pre(p[2]).mass, Pre(p[1]).mass) => p[1] \in NowIds

\* C2: the candidate search emits exactly one Destroyed and exactly one
\* Merge instruction per unordered colliding pair of a cell.
C2_OnePerPair ==
    PassDone =>
        /\ CountKind("Destroyed") = Cardinality(UnorderedPassPairs)
        /\ CountKind("Merge") = Cardinality(UnorderedPassPairs)

\* C3: a body that collides in one pass with two or more lighter bodies of
\* its cell, and survives, ends with its pre-pass mass plus the masses of
\* all of them.
Absorbed(a) == {b \in PreIds : <<a, b>> \in PassPairs /\ RLt(Pre(b).mass, Pre(a).mass)}

C3_MergesAccumulate ==
    PassDone =>
        \A a \in PreIds :
            (Cardinality(Absorbed(a)) >= 2 /\ a \in NowIds)
                => Now(a).mass = RAdd(Pre(a).mass, SumMass(Absorbed(a)))

\* C4: every Merge instruction of a pass follows the Destroyed instruction
\* of its pair, and for the surviving body w and the destroyed body d of
\* that pair it carries mass m_w + m_d and, per component, the velocity
\* (m_w v_w + m_d v_d) / (m_w + m_d), so that merged mass times merged
\* velocity is the summed momentum.
MergeConserves(c, w, d) ==
    /\ c.new_mass = RAdd(w.mass, d.mass)
    /\ \A k \in {1, 2} :
        /\ c.new_velocity[k] =
             RDiv(RAdd(RMul(w.mass, w.velocity[k]), RMul(d.mass, d.velocity[k])),
                  RAdd(w.mass, d.mass))
        /\ RMul(c.new_mass, c.new_velocity[k]) =
             RAdd(RMul(w.mass, w.velocity[k]), RMul(d.mass, d.velocity[k]))

C4_MergeMomentum ==
    PassDone =>
        \A i \in DOMAIN collisions :
            collisions[i].kind = "Merge" =>
                /\ i > 1
                /\ collisions[i - 1].kind = "Destroyed"
                /\ <<collisions[i].body_id, collisions[i - 1].body_id>> \in PassPairs
                /\ MergeConserves(collisions[i], Pre(collisions[i].body_id),
                                  Pre(collisions[i - 1].body_id))

\* A pass merged two bodies of different masses and different velocities
C4_Witness ==
    /\ PassDone
    /\ \E i \in DOMAIN collisions :
        /\ collisions[i].kind = "Merge"
        /\ Pre(collisions[i].body_id).mass # Pre(collisions[i - 1].body_id).mass
        /\ Pre(collisions[i].body_id).velocity # Pre(collisions[i - 1].body_id).velocity
        /\ collisions[i].new_velocity # Pre(collisions[i].body_id).velocity

\* C5: one step of any integrator leaves the position and the velocity of
\* every fixed body as they were.
C5_FixedUntouchedByStep ==
    StepDone =>
        \A id \in PreIds :
            Pre(id).fixed =>
                /\ Now(id).pos = Pre(id).pos
                /\ Now(id).velocity = Pre(id).velocity

\* C6: a collision pass leaves the mass and the velocity of every fixed
\* body as they were.
C6_FixedNotMerged ==
    PassDone =>
        \A id \in PreIds \cap NowIds :
            Pre(id).fixed =>
                /\ Now(id).mass = Pre(id).mass
                /\ Now(id).velocity = Pre(id).velocity

\* The instructions of the last pass, as a set
Outcomes(cs) == {cs[i] : i \in DOMAIN cs}

\* The partition of the pre-state computed from the formulas of the grid:
\* the bodies in range, the bounding width, the number of columns
SelectedPre == {Pre(i) : i \in {j \in PreIds : body_in_range(Pre(j), binParams.max_distance)}}
WidthPre == bin_width_of(SelectedPre)
CountPre == bin_count_of(WidthPre, binParams.bin_width)
ColumnPre(b) == bin_clamp(bin_offset(b, WidthPre)[1], binParams.bin_width, CountPre)
RowPre(b) == bin_clamp(bin_offset(b, WidthPre)[2], binParams.bin_width, CountPre)

SameCellPre(a, b) ==
    /\ a \in SelectedPre
    /\ b \in SelectedPre
    /\ CountPre > 0
    /\ ColumnPre(a) = ColumnPre(b)
    /\ RowPre(a) = RowPre(b)

\* C7 (as claimed): two tier-1 bodies whose extents overlap, neither of
\* which collides with a tier-0 body in the pass, both stay in the registry
\* with unchanged mass and velocity.
HitByTier0(a) == \E p \in PassPairs : p[1] = a /\ p[2] \in DOMAIN pre0

C7_Tier1NeverCollide ==
    PassDone =>
        \A a, b \in DOMAIN pre1 :
            (a # b /\ collides(pre1[a], pre1[b]) /\ ~HitByTier0(a) /\ ~HitByTier0(b))
                => /\ {a, b} \subseteq NowIds
                   /\ Now(a).mass = pre1[a].mass
                   /\ Now(a).velocity = pre1[a].velocity

\* C7 (amended): a pass treats two tier-1 bodies like any other pair: when
\* both are in range, fall in the same cell and overlap, the pass emits a
\* Destroyed instruction for each of the two that is not strictly heavier
\* than the other and a Merge instruction with the summed mass for the
\* other, and the body named by the Destroyed instruction is removed.
C7_Tier1PairsCollide ==
    PassDone =>
        \A a, b \in DOMAIN pre1 :
            (/\ a # b
             /\ SameCellPre(pre1[a], pre1[b])
             /\ collides(pre1[a], pre1[b])
             /\ ~RLt(pre1[b].mass, pre1[a].mass))
                => /\ Destroyed(a) \in Outcomes(collisions)
                   /\ \E c \in Outcomes(collisions) :
                        /\ c.kind = "Merge"
                        /\ c.body_id = b
                        /\ c.new_mass = RAdd(pre1[a].mass, pre1[b].mass)
                   /\ a \notin NowIds

\* A pass ran over two overlapping tier-1 bodies of one cell
C7_Witness ==
    /\ PassDone
    /\ \E a, b \in DOMAIN pre1 :
        /\ a # b
        /\ SameCellPre(pre1[a], pre1[b])
        /\ collides(pre1[a], pre1[b])
        /\ RLt(pre1[a].mass, pre1[b].mass)
        /\ a \notin NowIds
        /\ b \in NowIds

\* C8: when no body lies within max_distance of the origin, bin_bodies
\* returns zero bins and the pass completes with zero collisions and an
\* unchanged registry, without panicking.
C8_EmptySelectionHandled ==
    (lastOp \in {"handle_collisions", "bin_bodies"} /\ SelectedPre = {})
        => /\ ~panicked
           /\ bins = <<>>
           /\ lastOp = "handle_collisions" =>
                (collisions = <<>> /\ tier0 = pre0 /\ tier1 = pre1)

\* C9: for bodies that all share one in-range position, the spatial-hash
\* pass produces the same set of outcomes as the exhaustive pairwise pass.
AllShareOnePosition ==
    /\ PreIds # {}
    /\ \A i, j \in PreIds : Pre(i).pos = Pre(j).pos
    /\ \A i \in PreIds : body_in_range(Pre(i), MAX_DISTANCE_DEFAULT)

C9_SpatialHashEqualsPairwise ==
    (lastOp = "handle_collisions" /\ AllShareOnePosition)
        => /\ ~panicked
           /\ \A ord \in Orders(PreIds) :
                Outcomes(collisions) = Outcomes(compute_pairwise_collisions(pre0, pre1, ord))

\* C10: bin_bodies assigns every body in range to exactly one cell without
\* panicking, and two bodies whose clamped (column, row) differ never share
\* a bin.
C10_EveryBodyBinned ==
    (lastOp \in {"handle_collisions", "bin_bodies"} /\ SelectedPre # {})
        => /\ ~panicked
           /\ \A b \in SelectedPre :
                Cardinality({k \in DOMAIN bins : b.id \in bins[k]}) = 1
           /\ \A a, b \in SelectedPre :
                (ColumnPre(a) # ColumnPre(b) \/ RowPre(a) # RowPre(b))
                    => ~ \E k \in DOMAIN bins : a.id \in bins[k] /\ b.id \in bins[k]

\* The registry after the first k instructions of the last pass were applied
RegAfter(k) ==
    apply_collisions([tier0 |-> pre0, tier1 |-> pre1], SubSeq(collisions, 1, k))

\* The instructions of the last pass that name an identity which the
\* registry no longer holds when they are applied
Stale == {k \in DOMAIN collisions :
            collisions[k].body_id \notin Ids(RegAfter(k - 1).tier0, RegAfter(k - 1).tier1)}

\* C11: in the Apply phase an instruction that names an identity no longer
\* in the registry changes nothing and raises no error: a Destroyed of an
\* absent identity leaves both tiers as they are and a Merge whose survivor
\* was removed earlier in the batch is skipped; the registry the pass leaves
\* is the one the instructions produce in order.
RECURSIVE StaleAreNoOps(_, _)
StaleAreNoOps(reg, k) ==
    IF k > Len(collisions) THEN reg = [tier0 |-> tier0, tier1 |-> tier1]
    ELSE \E next \in {apply_collision(reg, collisions[k])} :
            /\ collisions[k].body_id \notin Ids(reg.tier0, reg.tier1) => next = reg
            /\ StaleAreNoOps(next, k + 1)

C11_StaleInstructionIsNoOp ==
    PassDone =>
        /\ StaleAreNoOps([tier0 |-> pre0, tier1 |-> pre1], 1)
        /\ NowIds \subseteq PreIds

\* A pass applied a Destroyed and a Merge that both named an identity
\* removed earlier in the same batch
C11_Witness ==
    /\ PassDone
    /\ \E k \in Stale : collisions[k].kind = "Destroyed"
    /\ \E k \in Stale :
        /\ collisions[k].kind = "Merge"
        /\ collisions[k].body_id \in PreIds

\* C12: whenever the camera follows a body by identity and that identity
\* is not in the registry, the driver handles the absence and goes on with
\* the frame: neither the click handler nor the draw phase aborts.
C12_CameraHandlesAbsence ==
    (/\ lastOp \in {"click", "draw"}
     /\ camera_position.kind = "BodyRelative"
     /\ camera_position.body \notin PreIds)
        => ~panicked

\* C13: every call of Body::new assigns an identity strictly greater than
\* every identity assigned before it: no two bodies ever created share an
\* identity, a body keeps the identity it was created with, and an identity
\* removed from the registry is never assigned again.
C13_IdentitiesStrictlyIncrease ==
    /\ \A i, j \in DOMAIN assigned : i < j => assigned[i] < assigned[j]
    /\ \A id \in NowIds :
        /\ Now(id).id = id
        /\ \E i \in DOMAIN assigned : assigned[i] = id
    /\ DOMAIN tier0 \cap DOMAIN tier1 = {}
    /\ lastOp = "Body::new" =>
        /\ assigned[Len(assigned)] \notin PreIds
        /\ NowIds = PreIds \cup {assigned[Len(assigned)]}
        /\ \A id \in PreIds : Now(id) = Pre(id)

\* Body::new ran after a collision pass had removed an identity
C13_Witness ==
    /\ lastOp = "Body::new"
    /\ Len(assigned) >= 2
    /\ \E i \in 1..(Len(assigned) - 1) : assigned[i] \notin NowIds
    /\ assigned[Len(assigned)] \in NowIds

\* The last operation was a call of update_acceleration
AccelDone == lastOp = "update_acceleration"

\* The tier-1 bodies of the pre-state, each moved by (1, 1)
Tier1Moved == [i \in DOMAIN pre1 |-> [pre1[i] EXCEPT !.pos = VAdd(@, Vec2(1, 1))]]

\* C14: tier-1 bodies exert no force.  The acceleration update_acceleration
\* assigns to a non-fixed body is the sum of the pairwise contributions of
\* the tier-0 bodies other than itself and of nothing else: removing or
\* moving the tier-1 bodies changes no other body's acceleration, and with
\* zero tier-0 bodies every tier-1 acceleration is (0, 0).
C14_Tier1ExertNoForce ==
    AccelDone =>
        /\ \A id \in DOMAIN pre0 : ~pre0[id].fixed =>
            /\ Now(id).accel = SumAccel(pre0[id], pre0, DOMAIN pre0 \ {id})
            /\ Now(id).accel = update_acceleration(pre0, Empty).tier0[id].accel
            /\ Now(id).accel = update_acceleration(pre0, Tier1Moved).tier0[id].accel
        /\ \A id \in DOMAIN pre1 : ~pre1[id].fixed =>
            /\ Now(id).accel = SumAccel(pre1[id], pre0, DOMAIN pre0)
            /\ \A other \in DOMAIN pre1 \ {id} :
                 Now(id).accel =
                    update_acceleration(pre0, remove(pre1, other)).tier1[id].accel
            /\ pre0 = Empty => Now(id).accel = <<Zero, Zero>>

\* update_acceleration ran over a tier-0 body and two tier-1 bodies that
\* lie apart, and gave one of the tier-1 bodies a non-zero acceleration
C14_Witness ==
    /\ AccelDone
    /\ DOMAIN pre0 # {}
    /\ \E a, b \in DOMAIN pre1 :
        /\ pre1[a].pos # pre1[b].pos
        /\ Now(a).accel # <<Zero, Zero>>
        /\ Now(a).accel # pre1[a].accel

\* C15: kepler_orbit places the orbiting body so that its distance from the
\* reference body's current position is (m_ref / (m_orbit + m_ref)) *
\* p / (1 + e cos(theta)) with p = a (1 - e^2), wherever the reference body
\* is, and it does not modify the reference body.  The distances are
\* compared on their squares.
C15_OrbitAroundReference ==
    lastOp = "kepler_orbit" =>
        LET o == Pre(lastArgs.orbiting)
            ref == Pre(lastArgs.reference)
            fraction == RDiv(ref.mass, RAdd(o.mass, ref.mass))
        IN  /\ distance2(Now(lastArgs.orbiting), ref)
                 = RSq(RMul(fraction, kepler_radius(lastArgs.orb)))
            /\ Now(lastArgs.reference) = ref

\* C16: from the same registry state and the same dt, one Leapfrog step and
\* one LeapfrogKDK step give every body the same position and the same
\* velocity, in exact arithmetic.
C16_LeapfrogEqualsKDK ==
    lastOp = "Leapfrog" =>
        LET kdk == LeapfrogKDK_step(pre0, pre1, lastArgs.dt)
        IN  \A id \in PreIds :
                /\ Now(id).pos = get_by_id(kdk.tier0, kdk.tier1, id).pos
                /\ Now(id).velocity = get_by_id(kdk.tier0, kdk.tier1, id).velocity

\* C18: a body's position history never holds more than 1000 entries.
\* Every set_pos appends the new position as the newest entry and, once
\* 1000 entries are held, discards the oldest: after k calls the history is
\* exactly the most recent min(k, 1000) positions in the order they were set.
C18_HistoryIsMostRecent ==
    \A id \in NowIds :
        LET h == Now(id).pos_list
            n == IF ticks < 1000 THEN ticks ELSE 1000
        IN  /\ Len(h) <= 1000
            /\ Len(h) = n
            /\ \A i \in 1..n : h[i] = PosOf(ticks - n + i)
            /\ ticks > 0 => Now(id).pos = PosOf(ticks)

\* More than 1000 positions were set and the oldest ones are gone
C18_Witness ==
    /\ lastOp = "set_pos"
    /\ ticks > MAXIMUM_POSITION_HISTORY + 1
    /\ \E id \in NowIds :
        /\ Len(Now(id).pos_list) = MAXIMUM_POSITION_HISTORY
        /\ Now(id).pos_list[1] = PosOf(ticks - MAXIMUM_POSITION_HISTORY + 1)
        /\ Now(id).pos_list[1] # PosOf(1)

\* The last operation was an integrator step, an acceleration update or a
\* collision pass
FrameOpDone == StepDone \/ AccelDone \/ lastOp = "handle_collisions"

\* C19: over integrator steps, acceleration updates and collision passes
\* the tier-0 and tier-1 identity sets stay disjoint and never gain a
\* member: no step and no acceleration update adds, removes or moves a body
\* between tiers, and only handle_collisions removes identities.
C19_TiersOnlyShrink ==
    /\ DOMAIN tier0 \cap DOMAIN tier1 = {}
    /\ FrameOpDone =>
        /\ DOMAIN tier0 \subseteq DOMAIN pre0
        /\ DOMAIN tier1 \subseteq DOMAIN pre1
        /\ lastOp # "handle_collisions" =>
            /\ DOMAIN tier0 = DOMAIN pre0
            /\ DOMAIN tier1 = DOMAIN pre1

\* A collision pass removed an identity and merged it into a tier-1 body
\* that is still there
C19_Witness ==
    /\ PassDone
    /\ NowIds # PreIds
    /\ \E i \in DOMAIN collisions :
        /\ collisions[i].kind = "Merge"
        /\ collisions[i].body_id \in DOMAIN tier1

\* C20: within one step of any integrator all accelerations are computed
\* from one consistent set of positions.  update_acceleration changes only
\* the accel field of a body (never position, velocity, mass or tier), and
\* every acceleration it writes is the one the positions held at the start
\* of the call give, whatever the order of the loops; Euler computes them
\* before it moves a body, the leapfrogs after they moved every body.
Snapshot(t0, t1, id) ==
    LET u == update_acceleration(t0, t1)
    IN  get_by_id(u.tier0, u.tier1, id).accel

C20_AccelFromOneSnapshot ==
    /\ AccelDone =>
        /\ DOMAIN tier0 = DOMAIN pre0
        /\ DOMAIN tier1 = DOMAIN pre1
        /\ \A id \in PreIds :
            /\ Now(id) = [Pre(id) EXCEPT !.accel = Now(id).accel]
            /\ Now(id).accel = Snapshot(pre0, pre1, id)
    /\ lastOp = "Euler" =>
        \A id \in PreIds : Now(id).accel = Snapshot(pre0, pre1, id)
    /\ lastOp \in {"Leapfrog", "LeapfrogKDK"} =>
        \A id \in PreIds : Now(id).accel = Snapshot(tier0, tier1, id)

\* update_acceleration ran over a moving tier-0 body and gave a tier-1
\* body, computed after it, a new non-zero acceleration
C20_Witness ==
    /\ AccelDone
    /\ \E a \in DOMAIN pre0 : \E b \in DOMAIN pre1 :
        /\ ~pre0[a].fixed
        /\ pre0[a].velocity # <<Zero, Zero>>
        /\ Now(b).accel # <<Zero, Zero>>
        /\ Now(b).accel # pre1[b].accel

\* The clamped (column, row) of a body in a grid of bounding width w and
\* n columns of the default bin width
CellOf(body, w, n) ==
    <<bin_clamp(bin_offset(body, w)[1], BIN_WIDTH_DEFAULT, n),
      bin_clamp(bin_offset(body, w)[2], BIN_WIDTH_DEFAULT, n)>>

\* Two bodies of the pre-state that are in range and whose clamped
\* (column, row) differ
DifferentCellsPre(a, b) ==
    /\ a \in SelectedPre
    /\ b \in SelectedPre
    /\ CountPre > 0
    /\ ColumnPre(a) # ColumnPre(b) \/ RowPre(a) # RowPre(b)

\* C21: two in-range bodies that bin_bodies assigns to different grid
\* cells never produce a collision outcome with each other in the
\* spatial-hash pass, even when the distance between their centres is at
\* most the sum of their physical radii: every Destroyed/Merge pair of the
\* pass names two in-range bodies of the same (column, row).
C21_CellsAreExclusive ==
    (PassDone /\ collisions # <<>>) =>
        \E sel \in {SelectedPre} :
        \E w \in {bin_width_of(sel)} :
        \E n \in {bin_count_of(w, BIN_WIDTH_DEFAULT)} :
            \A i \in DOMAIN collisions :
                collisions[i].kind = "Merge" =>
                    /\ i > 1
                    /\ collisions[i - 1].kind = "Destroyed"
                    /\ n > 0
                    /\ Pre(collisions[i].body_id) \in sel
                    /\ Pre(collisions[i - 1].body_id) \in sel
                    /\ CellOf(Pre(collisions[i].body_id), w, n)
                         = CellOf(Pre(collisions[i - 1].body_id), w, n)

\* A pass ran over two bodies of different cells whose extents overlap,
\* in the same column, and left both in the registry
C21_Witness ==
    /\ PassDone
    /\ \E a, b \in PreIds :
        /\ a # b
        /\ DifferentCellsPre(Pre(a), Pre(b))
        /\ ColumnPre(Pre(a)) = ColumnPre(Pre(b))
        /\ collides(Pre(a), Pre(b))
        /\ a \in NowIds
        /\ b \in NowIds

====
